---- MODULE Spec2Model ----
(***************************************************************************)
(* A model of the slake snake engine (src/src/snake.rs) and of the way it  *)
(* draws from the thread-local PRNG (src/src/random.rs).                   *)
(*                                                                         *)
(* A game is a record with the fields of struct SnakeGame.  Vec and        *)
(* VecDeque are sequences (order and duplicates are kept), a Vector is a   *)
(* pair <<x, y>>.  Every method of SnakeGame is an operator from a game    *)
(* (and the values drawn from the PRNG during the call) to the game after  *)
(* the call; the actions apply the public methods to the variable game.    *)
(***************************************************************************)
EXTENDS Integers, Sequences, FiniteSets, TLC

\* ------------------------------------------------------------------ bounds
\* new(width, height) asserts width >= 5 and height >= 3; the model plays
\* on the smallest board the constructor accepts.
MinWidth == 5
MinHeight == 3
\* get_u16 is modelled as returning any value of 0..MaxDraw.
MaxDraw == 2
\* tick is called at most MaxTicks times in all.
MaxTicks == 7

\* the test it_works plays new(5, 5)
TestWidth == 5
TestHeight == 5
\* the straight runs are played on boards of TestWidth to MaxWidth columns
\* and TestHeight rows, with get_u16 returning any value of
\* 0..MaxStraightDraw
MaxWidth == 6
MaxStraightDraw == 27
\* on the full board the player makes at most MaxIdleTicks ticks that do not
\* eat
MaxIdleTicks == 6

Draws == 0 .. MaxDraw

\* ---------------------------------------------------------------- geometry
Directions == {"Up", "Right", "Down", "Left"}

\* to_vector with a typo in the vector of Left
to_vector_left_skips(d) ==
    CASE d = "Up"    -> <<0, -1>>
      [] d = "Right" -> <<1, 0>>
      [] d = "Down"  -> <<0, 1>>
      [] d = "Left"  -> <<-2, 0>>

to_vector(d) ==
    CASE d = "Up"    -> <<0, -1>>
      [] d = "Right" -> <<1, 0>>
      [] d = "Down"  -> <<0, 1>>
      [] d = "Left"  -> <<-1, 0>>

opposite(d) ==
    CASE d = "Up"    -> "Down"
      [] d = "Right" -> "Left"
      [] d = "Down"  -> "Up"
      [] d = "Left"  -> "Right"

VectorAdd(a, b) == <<a[1] + b[1], a[2] + b[2]>>

\* ------------------------------------------------------------- Vec helpers
Range(s) == {s[i] : i \in 1 .. Len(s)}

contains(vec, e) == \E i \in 1 .. Len(vec) : vec[i] = e

\* Iterator::position: the index of the first element equal to e
position(vec, e) == CHOOSE i \in 1 .. Len(vec) :
                        /\ vec[i] = e
                        /\ \A j \in 1 .. (i - 1) : vec[j] # e

\* Vec::swap_remove at the 1-based index i: the last element takes the place
\* of the removed one
swap_remove(vec, i) ==
    [j \in 1 .. (Len(vec) - 1) |-> IF j = i THEN vec[Len(vec)] ELSE vec[j]]

remove_from_vec(vec, e) ==
    IF contains(vec, e) THEN swap_remove(vec, position(vec, e)) ELSE vec

\* ---------------------------------------------------------------- the game
DefaultGame ==
    [width |-> 0, height |-> 0,
     free_positions |-> <<>>, snake |-> <<>>,
     direction |-> "Left", next_direction |-> "Left",
     hazards |-> <<>>, food |-> <<>>,
     game_over |-> FALSE,
     score |-> 0, high_score |-> 0, high_score_display |-> 0,
     log |-> ""]

\* is_within_board that only looks at the right and bottom edges
is_within_board_no_lower_bound(g, v) ==
    v[1] < g.width /\ v[2] < g.height

\* is_within_board that takes the left column for the wall
is_within_board_off_by_one(g, v) ==
    v[1] > 0 /\ v[2] >= 0 /\ v[1] < g.width /\ v[2] < g.height

is_within_board(g, v) ==
    v[1] >= 0 /\ v[2] >= 0 /\ v[1] < g.width /\ v[2] < g.height

\* the cells of the board in the order of the flat_map: rows top to bottom,
\* each row left to right
BoardCells(g) ==
    [k \in 1 .. (g.width * g.height) |->
        <<(k - 1) % g.width, (k - 1) \div g.width>>]

init_free_positions(g) ==
    [g EXCEPT !.free_positions =
        SelectSeq(BoardCells(g),
                  LAMBDA pos : /\ ~contains(g.snake, pos)
                               /\ ~contains(g.hazards, pos)
                               /\ ~contains(g.food, pos))]

\* clear_board that leaves the hazards of the last run on the board
clear_board_keeps_hazards(g) ==
    init_free_positions([g EXCEPT !.snake = <<>>, !.food = <<>>])

clear_board(g) ==
    init_free_positions([g EXCEPT !.snake = <<>>, !.hazards = <<>>,
                                  !.food = <<>>])

\* push_snake_head that forgets to claim the cell
push_snake_head_keeps_free(g, head) ==
    [g EXCEPT !.snake = <<head>> \o g.snake]

push_snake_head(g, head) ==
    [g EXCEPT !.free_positions = remove_from_vec(g.free_positions, head),
              !.snake = <<head>> \o g.snake]

\* pop_snake_tail that always releases the cell, hazard or not
pop_snake_tail_always_frees(g) ==
    [g EXCEPT !.snake = SubSeq(g.snake, 1, Len(g.snake) - 1),
              !.free_positions = Append(g.free_positions, g.snake[Len(g.snake)])]

pop_snake_tail(g) ==
    LET pos == g.snake[Len(g.snake)]
        popped == [g EXCEPT !.snake = SubSeq(g.snake, 1, Len(g.snake) - 1)]
    IN  IF ~contains(popped.hazards, pos)
        THEN [popped EXCEPT !.free_positions = Append(popped.free_positions, pos)]
        ELSE popped

\* end_game that records the score without comparing it
end_game_overwrites_high_score(g, message) ==
    [g EXCEPT !.game_over = TRUE, !.high_score = g.score, !.log = message]

end_game(g, message) ==
    [g EXCEPT !.game_over = TRUE,
              !.high_score = IF g.score >= g.high_score THEN g.score
                             ELSE g.high_score,
              !.log = message]

\* add_food that indexes the whole board instead of free_positions
RECURSIVE add_food_any_cell(_, _, _)
add_food_any_cell(g, number, rs) ==
    IF number = 0 THEN g
    ELSE IF g.free_positions = <<>>
         THEN add_food_any_cell(end_game(g, "can't believe you made it this far"),
                                number - 1, rs)
         ELSE LET position_index == Head(rs) % Len(BoardCells(g))
                  pos == BoardCells(g)[position_index + 1]
              IN  add_food_any_cell(
                      [g EXCEPT
                         !.free_positions = remove_from_vec(g.free_positions, pos),
                         !.food = Append(g.food, pos)],
                      number - 1, Tail(rs))

\* add_food that skips a round on a full board without ending the game
RECURSIVE add_food_no_kill_screen(_, _, _)
add_food_no_kill_screen(g, number, rs) ==
    IF number = 0 THEN g
    ELSE IF g.free_positions = <<>>
         THEN add_food_no_kill_screen(g, number - 1, rs)
         ELSE LET position_index == Head(rs) % Len(g.free_positions)
                  pos == g.free_positions[position_index + 1]
              IN  add_food_no_kill_screen(
                      [g EXCEPT
                         !.free_positions =
                             swap_remove(g.free_positions, position_index + 1),
                         !.food = Append(g.food, pos)],
                      number - 1, Tail(rs))

\* add_food(number): rs holds the values get_u16 returns, one per round of
\* the loop that draws
RECURSIVE add_food(_, _, _)
add_food(g, number, rs) ==
    IF number = 0 THEN g
    ELSE IF g.free_positions = <<>>
         THEN add_food(end_game(g, "can't believe you made it this far"),
                       number - 1, rs)
         ELSE LET position_index == Head(rs) % Len(g.free_positions)
                  pos == g.free_positions[position_index + 1]
              IN  add_food([g EXCEPT
                              !.free_positions =
                                  swap_remove(g.free_positions, position_index + 1),
                              !.food = Append(g.food, pos)],
                           number - 1, Tail(rs))

restart(g, rs) ==
    LET cleared == clear_board(g)
        tail == <<g.width - 1, g.height \div 2>>
        head == <<g.width - 2, g.height \div 2>>
        fed == add_food(push_snake_head(push_snake_head(cleared, tail), head),
                        1, rs)
    IN  [fed EXCEPT !.direction = "Left", !.next_direction = "Left",
                    !.game_over = FALSE,
                    !.high_score_display = fed.high_score,
                    !.score = 0]

new(width, height, rs) ==
    restart([DefaultGame EXCEPT !.width = width, !.height = height], rs)

\* change_direction that stores d in the committed direction
change_direction_commits(g, d) ==
    IF g.direction = d \/ opposite(g.direction) = d
    THEN g
    ELSE [g EXCEPT !.direction = d]

\* change_direction that only refuses the current direction
change_direction_allows_reversal(g, d) ==
    IF g.direction = d THEN g ELSE [g EXCEPT !.next_direction = d]

change_direction(g, d) ==
    IF g.direction = d \/ opposite(g.direction) = d
    THEN g
    ELSE [g EXCEPT !.next_direction = d]

\* the head position tick computes after committing the queued direction
new_head_of(g) == VectorAdd(to_vector(g.next_direction), g.snake[1])

\* the checks of tick with the hazards looked at before the snake
collision_hazard_first(g, new_head) ==
    IF ~is_within_board(g, new_head) THEN "avoid walls"
    ELSE IF contains(g.hazards, new_head) THEN "don't slip on the leftovers"
    ELSE IF contains(g.snake, new_head) THEN "avoid crashing into your own tail"
    ELSE ""

\* the three checks tick makes on the new head, in the order it makes them:
\* the message of the one that ends the game, "" when none does
collision_no_self_check(g, new_head) ==
    IF ~is_within_board(g, new_head) THEN "avoid walls"
    ELSE IF contains(g.hazards, new_head) THEN "don't slip on the leftovers"
    ELSE ""

collision(g, new_head) ==
    IF ~is_within_board(g, new_head) THEN "avoid walls"
    ELSE IF contains(g.snake, new_head) THEN "avoid crashing into your own tail"
    ELSE IF contains(g.hazards, new_head) THEN "don't slip on the leftovers"
    ELSE ""

\* eat that keeps only the newest hazard
eat_replaces_hazards(g, new_head, rs) ==
    add_food([g EXCEPT !.score = g.score + 1,
                       !.hazards = <<g.snake[Len(g.snake)]>>,
                       !.food = remove_from_vec(g.food, new_head)],
             1, rs)

\* eat that does not record a tail cell that is a hazard already
eat_skips_known_hazard(g, new_head, rs) ==
    LET tail_pos == g.snake[Len(g.snake)]
    IN  add_food([g EXCEPT !.score = g.score + 1,
                           !.hazards = IF contains(g.hazards, tail_pos)
                                       THEN g.hazards
                                       ELSE Append(g.hazards, tail_pos),
                           !.food = remove_from_vec(g.food, new_head)],
                 1, rs)

\* eat that counts a food twice
eat_scores_double(g, new_head, rs) ==
    add_food([g EXCEPT !.score = g.score + 2,
                       !.hazards = Append(g.hazards, g.snake[Len(g.snake)]),
                       !.food = remove_from_vec(g.food, new_head)],
             1, rs)

\* eat that spawns no new food
eat_no_respawn(g, new_head, rs) ==
    [g EXCEPT !.score = g.score + 1,
              !.hazards = Append(g.hazards, g.snake[Len(g.snake)]),
              !.food = remove_from_vec(g.food, new_head)]

\* the branch of tick that eats: g is the game after push_snake_head
eat_scores_nothing(g, new_head, rs) ==
    add_food([g EXCEPT !.hazards = Append(g.hazards, g.snake[Len(g.snake)]),
                       !.food = remove_from_vec(g.food, new_head)],
             1, rs)

eat(g, new_head, rs) ==
    LET tail_pos == g.snake[Len(g.snake)]
    IN  add_food([g EXCEPT !.score = g.score + 1,
                           !.hazards = Append(g.hazards, tail_pos),
                           !.food = remove_from_vec(g.food, new_head)],
                 1, rs)

\* tick from the commit of the queued direction on
advance(g, rs) ==
    LET turned == [g EXCEPT !.direction = g.next_direction]
        new_head == VectorAdd(to_vector(turned.direction), turned.snake[1])
        message == collision(turned, new_head)
    IN  IF message # ""
        THEN end_game(turned, message)
        ELSE LET moved == push_snake_head(turned, new_head)
             IN  IF contains(moved.food, new_head)
                 THEN eat(moved, new_head, rs)
                 ELSE pop_snake_tail(moved)

\* tick without the early return of a finished game
tick_ignores_game_over(g, rs) == advance(g, rs)

tick(g, rs) == IF g.game_over THEN g ELSE advance(g, rs)

\* ------------------------------------------------------------- the machine
VARIABLES game,       \* the SnakeGame instance; game.log is the last line
                      \* written to the log since the last restart
          nticks,     \* tick calls since the last restart
          total,      \* tick calls since the construction
          straight    \* no change_direction call since the last restart

vars == <<game, nticks, total, straight>>

Init ==
    /\ \E r \in Draws : game = new(MinWidth, MinHeight, <<r>>)
    /\ nticks = 0
    /\ total = 0
    /\ straight = TRUE

RestartWith(D) ==
    /\ \E r \in D : game' = [restart(game, <<r>>) EXCEPT !.log = ""]
    /\ nticks' = 0
    /\ straight' = TRUE
    /\ UNCHANGED total

Restart == RestartWith(Draws)

ChangeDirection ==
    /\ \E d \in Directions : game' = change_direction(game, d)
    /\ straight' = FALSE
    /\ UNCHANGED <<nticks, total>>

\* get_u16 is called once by a tick that eats and spawns, and not at all by
\* any other tick
TickDraws(g, D) ==
    IF /\ ~g.game_over
       /\ contains(g.food, new_head_of(g))
       /\ g.free_positions # <<>>
    THEN D ELSE {0}

TickWith(D) ==
    /\ \E r \in D : game' = tick(game, <<r>>)
    /\ nticks' = nticks + 1
    /\ total' = total + 1
    /\ UNCHANGED straight

Tick ==
    /\ total < MaxTicks
    /\ TickWith(TickDraws(game, Draws))

Next == Restart \/ ChangeDirection \/ Tick

Spec == Init /\ [][Next]_vars

\* ------------------------------------------------------- the straight runs
\* Games of TestWidth to MaxWidth columns and TestHeight rows (the board of
\* the test among them) that are only ticked and restarted, with the food on
\* any cell of the board.
StraightDraws == 0 .. MaxStraightDraw

StraightInit ==
    /\ \E w \in TestWidth .. MaxWidth :
          \E r \in StraightDraws : game = new(w, TestHeight, <<r>>)
    /\ nticks = 0
    /\ total = 0
    /\ straight = TRUE

StraightRestart == RestartWith(StraightDraws)

StraightTick ==
    /\ total < MaxTicks
    /\ TickWith(TickDraws(game, StraightDraws))

StraightNext == StraightRestart \/ StraightTick

SpecStraight == StraightInit /\ [][StraightNext]_vars

\* --------------------------------------------------------- the full board
\* One game on the smallest board in which get_u16 returns the values of
\* KillStream one after the other, a sequence that lets the player fill the
\* board; the player is free but for the number of ticks that do not eat.
KillStream == <<4, 9, 4, 3, 5, 3, 1, 0>>

\* the value get_u16 returns to the tick of game g: one value was drawn by
\* new and one by each tick that ate
KillDraw(g) == KillStream[((g.score + 1) % Len(KillStream)) + 1]

KillInit ==
    /\ game = new(MinWidth, MinHeight, <<KillStream[1]>>)
    /\ nticks = 0
    /\ total = 0
    /\ straight = TRUE

KillTick ==
    /\ \/ total - game.score < MaxIdleTicks
       \/ /\ ~game.game_over
          /\ collision(game, new_head_of(game)) = ""
          /\ contains(game.food, new_head_of(game))
    /\ TickWith({KillDraw(game)})

KillNext == ChangeDirection \/ KillTick

SpecKill == KillInit /\ [][KillNext]_vars

\* which call a step is: the bookkeeping variables tell the calls apart
IsTick == nticks' = nticks + 1
IsRestart == nticks' = 0 /\ straight'
IsChangeDirection == nticks' = nticks /\ ~straight'

\* ------------------------------------------------------------ vocabulary
Snake == Range(game.snake)
Food == Range(game.food)
Hazards == Range(game.hazards)
Free == Range(game.free_positions)
Board == {<<x, y>> : x \in 0 .. (game.width - 1), y \in 0 .. (game.height - 1)}
Running == ~game.game_over
SnakeTail == game.snake[Len(game.snake)]

NoDuplicates(s) == \A i, j \in 1 .. Len(s) : i # j => s[i] # s[j]

\* ---------------------------------------------------------------------- C1
\* C1 as stated: |snake| + |food| + |hazards| + |free_positions| equals
\* width*height and the four collections are pairwise disjoint.
C1_CountAndDisjoint ==
    /\ Len(game.snake) + Len(game.food) + Len(game.hazards)
          + Len(game.free_positions) = game.width * game.height
    /\ Snake \cap Food = {}
    /\ Snake \cap Hazards = {}
    /\ Snake \cap Free = {}
    /\ Food \cap Hazards = {}
    /\ Food \cap Free = {}
    /\ Hazards \cap Free = {}

\* C1 amended: food and free_positions are disjoint from each other and
\* from snake and hazards; snake and hazards share at most the snake's tail
\* cell (the cell a tick that eats marks as a hazard while it is still the
\* tail); counting every hazard cell once,
\* |snake| + |food| + |hazards| + |free_positions| equals width*height plus
\* the number of cells that are both snake and hazard.
C1_CountModuloTailHazard ==
    /\ Len(game.snake) + Len(game.food) + Cardinality(Hazards)
          + Len(game.free_positions)
          = game.width * game.height + Cardinality(Snake \cap Hazards)
    /\ Snake \cap Hazards \subseteq {SnakeTail}
    /\ Snake \cap Food = {}
    /\ Snake \cap Free = {}
    /\ Food \cap Hazards = {}
    /\ Food \cap Free = {}
    /\ Hazards \cap Free = {}

\* a tick has eaten and the tail cell is now snake and hazard at once
C1_Witness ==
    /\ nticks >= 1
    /\ game.score >= 1
    /\ SnakeTail \in Hazards

\* ---------------------------------------------------------------------- C2
\* C2: free_positions holds exactly the board cells that are in none of
\* snake, food and hazards, each of them once.
C2_FreeIsComplement ==
    /\ Free = Board \ (Snake \cup Food \cup Hazards)
    /\ NoDuplicates(game.free_positions)

\* the tail has moved off a hazard cell, which was withheld from
\* free_positions, while other tail cells went back to it
C2_Witness ==
    /\ nticks >= 3
    /\ Running
    /\ Hazards # {}
    /\ Snake \cap Hazards = {}

\* ---------------------------------------------------------------------- C3
\* C3: while the game is Running, the cells of snake are pairwise distinct.
C3_SnakeDistinct == Running => NoDuplicates(game.snake)

\* a Running snake long enough to bite itself, whose next tick would
\* do so
C3_Witness ==
    /\ Running
    /\ nticks >= 1
    /\ Len(game.snake) >= 4
    /\ contains(game.snake, new_head_of(game))

\* ---------------------------------------------------------------------- C4
\* C4: whatever change_direction calls are made between two ticks, the
\* direction a tick commits is never the opposite of the direction committed
\* before it (Left after a restart): the queued direction is never the
\* opposite of the committed one, no tick and no change_direction turns
\* the committed direction around, restart commits Left, and a
\* change_direction call with the opposite of the committed direction
\* leaves the game, and so the direction the next tick commits, as it was.
C4_NoReversal ==
    /\ [](game.next_direction # opposite(game.direction))
    /\ [](LET reversed == change_direction(game, opposite(game.direction))
          IN  /\ reversed = game
              /\ tick(reversed, <<0>>).direction = tick(game, <<0>>).direction)
    /\ [][/\ ~IsRestart => game'.direction # opposite(game.direction)
          /\ IsRestart => game'.direction = "Left"]_vars

\* a turn is queued on top of an earlier committed turn
C4_Witness ==
    /\ nticks >= 1
    /\ Running
    /\ game.direction # "Left"
    /\ game.next_direction # game.direction

\* ---------------------------------------------------------------------- C5
\* the new head of the next tick is on the board, is no snake cell, no
\* hazard cell, and is a food cell
EatsNext ==
    /\ Running
    /\ is_within_board(game, new_head_of(game))
    /\ new_head_of(game) \notin Snake
    /\ new_head_of(game) \notin Hazards
    /\ new_head_of(game) \in Food

\* C5: a tick adds exactly 1 to score when the game is Running and the new
\* head is on the board, off the snake, off the hazards and on food; every
\* other tick and every change_direction leaves score as it is (so within
\* a run score never decreases).
C5_ScoreCountsFood ==
    [][/\ IsTick => game'.score = (IF EatsNext THEN game.score + 1
                                               ELSE game.score)
       /\ IsChangeDirection => game'.score = game.score
       /\ ~IsRestart => game'.score >= game.score]_vars

\* a run in which ticks that eat and ticks that do not have alternated
C5_Witness ==
    /\ game.score >= 2
    /\ nticks >= game.score + 2
    /\ ~straight

\* ---------------------------------------------------------------------- C6
\* C6: in GameOver a tick changes nothing of the game, and only restart
\* leaves GameOver.
C6_GameOverIsFrozen ==
    [][game.game_over =>
          /\ IsTick => game' = game
          /\ ~IsRestart => game'.game_over]_vars

\* the run ended on the left wall and tick was called again, with a turn
\* queued in between
C6_Witness ==
    /\ game.game_over
    /\ game.log = "avoid walls"
    /\ nticks >= game.width
    /\ game.next_direction # game.direction

\* ---------------------------------------------------------------------- C7
\* C7: a game of width W that is only ticked after its construction or
\* restart is Running after each of the first W-2 ticks and over from tick
\* W-1 on, ended by the left wall, wherever the food is.
C7_StraightRunEndsAtWall ==
    straight => /\ game.game_over <=> nticks >= game.width - 1
                /\ game.game_over => game.log = "avoid walls"

\* on the board of the test the left wall ended a straight run that ate on
\* its way
C7_Witness ==
    /\ straight
    /\ game.width = TestWidth
    /\ game.height = TestHeight
    /\ game.game_over
    /\ nticks = game.width - 1
    /\ game.log = "avoid walls"
    /\ game.score >= 1

\* ---------------------------------------------------------------------- C8
\* C8: a tick that eats while free_positions is empty ends the game with
\* the kill screen message, draws nothing (its result is the one of a tick
\* that is given no value of get_u16 at all), and adds no food: the food
\* eaten is removed and free_positions stays empty.
C8_KillScreen ==
    [][(IsTick /\ EatsNext /\ game.free_positions = <<>>) =>
          /\ game'.game_over
          /\ game'.log = "can't believe you made it this far"
          /\ game' = tick(game, <<>>)
          /\ game'.food = remove_from_vec(game.food, new_head_of(game))
          /\ game'.food = <<>>
          /\ game'.free_positions = <<>>]_vars

\* the board is full and the game is over on the kill screen
C8_Witness ==
    /\ game.game_over
    /\ game.log = "can't believe you made it this far"
    /\ game.free_positions = <<>>
    /\ game.food = <<>>
    /\ Snake \cup Hazards = Board

\* ---------------------------------------------------------------------- C9
Max(a, b) == IF a >= b THEN a ELSE b

\* C9: the step that enters GameOver with score s sets high_score to the
\* larger of s and the high_score before it; a restart sets
\* high_score_display to high_score and score to 0 and keeps high_score;
\* no step decreases high_score; in GameOver high_score >= score.
C9_HighScore ==
    /\ [](game.game_over => game.high_score >= game.score)
    /\ [][/\ (~game.game_over /\ game'.game_over) =>
                 game'.high_score = Max(game.high_score, game'.score)
          /\ IsRestart => /\ game'.high_score_display = game.high_score
                          /\ game'.high_score = game.high_score
                          /\ game'.score = 0
          /\ game'.high_score >= game.high_score]_vars

\* a restarted run shows the high score of an earlier run and has ended below it
C9_Witness ==
    /\ game.game_over
    /\ game.high_score_display >= 1
    /\ game.score < game.high_score
\* --------------------------------------------------------------------- C11
\* the game restart leaves behind
FreshGame ==
    /\ game.snake = << <<game.width - 2, game.height \div 2>>,
                       <<game.width - 1, game.height \div 2>> >>
    /\ game.hazards = <<>>
    /\ Len(game.food) = 1
    /\ game.food[1] \notin Snake
    /\ game.food[1] \in Board
    /\ Free = Board \ (Snake \cup Food)
    /\ Len(game.free_positions) = game.width * game.height - 3
    /\ game.direction = "Left"
    /\ game.next_direction = "Left"
    /\ game.score = 0
    /\ ~game.game_over

\* C11: after new and after every restart, from a Running or a GameOver
\* state, the snake is the two cells (width-2, height/2), (width-1, height/2),
\* hazards is empty, there is one food cell off the snake, free_positions
\* holds the other width*height - 3 cells, both directions are Left, score
\* is 0 and the game is Running; restart keeps width and height.
C11_RestartIsFresh ==
    /\ []((nticks = 0 /\ straight) => FreshGame)
    /\ [][IsRestart => /\ FreshGame'
                       /\ game'.width = game.width
                       /\ game'.height = game.height]_vars

\* restarted after a run that left hazards and a high score behind
C11_Witness ==
    /\ nticks = 0
    /\ straight
    /\ total >= 3
    /\ game.high_score_display >= 1

\* --------------------------------------------------------------------- C12
\* what change_direction(d) is to make of the game
AfterChangeDirection(d) ==
    IF d = game.direction \/ d = opposite(game.direction)
    THEN game
    ELSE [game EXCEPT !.next_direction = d]

\* C12: change_direction(d) leaves everything but the queued direction as
\* it is; it leaves the queued direction too when d is the committed
\* direction or its opposite, and sets it to d otherwise.
C12_ChangeDirectionFrame ==
    /\ [](\A d \in Directions : change_direction(game, d) = AfterChangeDirection(d))
    /\ [][IsChangeDirection =>
             /\ game' = [game EXCEPT !.next_direction = game'.next_direction]
             /\ game'.next_direction # game.next_direction =>
                   /\ game'.next_direction # game.direction
                   /\ game'.next_direction # opposite(game.direction)]_vars

\* change_direction was called on a fresh game and had no effect: it was
\* given Left or Right
C12_Witness ==
    /\ ~straight
    /\ nticks = 0
    /\ game.direction = "Left"
    /\ game.next_direction = "Left"

\* --------------------------------------------------------------------- C13
\* hs is the beginning of hs2
IsPrefix(hs, hs2) ==
    /\ Len(hs) <= Len(hs2)
    /\ \A i \in 1 .. Len(hs) : hs2[i] = hs[i]

\* C13: tick and change_direction never take a cell out of hazards (they
\* only append to it); restart alone empties it.
C13_HazardsStay ==
    [][/\ ~IsRestart => /\ Hazards \subseteq Hazards'
                         /\ IsPrefix(game.hazards, game'.hazards)
       /\ IsRestart => game'.hazards = <<>>]_vars

\* two hazards were left on different cells and the snake has moved on
C13_Witness ==
    /\ Cardinality(Hazards) >= 2
    /\ Snake \cap Hazards = {}
    /\ nticks >= 4

\* --------------------------------------------------------------------- C14
\* C14 as stated: no cell is in hazards more than once.
C14_HazardsIsSet == NoDuplicates(game.hazards)

\* C14 amended: hazards holds one entry for every food eaten in the run
\* (|hazards| = score), and a cell can be in it more than once: ticks that
\* eat one after the other record the same tail cell again, so equal
\* entries of hazards are always next to each other.
C14_HazardsPerFood ==
    /\ Len(game.hazards) = game.score
    /\ \A i, j \in 1 .. Len(game.hazards) :
          (i < j /\ game.hazards[i] = game.hazards[j]) =>
              \A k \in i .. j : game.hazards[k] = game.hazards[i]

\* two ticks that ate one after the other recorded the tail twice
C14_Witness ==
    /\ Len(game.hazards) >= 2
    /\ game.hazards[1] = game.hazards[2]

\* --------------------------------------------------------------------- C15
\* C15: the snake has two cells and one more for every food eaten.
C15_SnakeLength ==
    /\ Len(game.snake) >= 2
    /\ Len(game.snake) = game.score + 2

\* the snake has grown twice and moved without growing
C15_Witness ==
    /\ Running
    /\ game.score >= 2
    /\ nticks > game.score
    /\ Len(game.snake) = 4
\* --------------------------------------------------------------------- C16
\* the reason for which the next tick ends the game on its new head, in the
\* order the claim gives; "" when there is none
CollisionReason ==
    IF ~is_within_board(game, new_head_of(game)) THEN "avoid walls"
    ELSE IF new_head_of(game) \in Snake THEN "avoid crashing into your own tail"
    ELSE IF new_head_of(game) \in Hazards THEN "don't slip on the leftovers"
    ELSE ""

\* a tick that ended the game on its new head: the reason is logged and
\* snake, food, hazards, free_positions and score are as before
CollisionLeavesBoard ==
    CollisionReason # "" =>
        /\ game'.log = CollisionReason
        /\ game'.snake = game.snake
        /\ game'.food = game.food
        /\ game'.hazards = game.hazards
        /\ game'.free_positions = game.free_positions
        /\ game'.score = game.score

\* C16 as stated: a tick in the Running state ends the game exactly when
\* the new head is off the board, a snake cell or a hazard cell.
C16_EndsOnlyOnCollision ==
    [][(IsTick /\ Running) =>
          /\ game'.game_over <=> CollisionReason # ""
          /\ CollisionLeavesBoard]_vars

\* C16 amended: a tick in the Running state ends the game exactly when the
\* new head is off the board, a snake cell or a hazard cell, or when it
\* eats while free_positions is empty (the kill screen); in the first three
\* cases the reason is the first that applies in that order and the tick
\* leaves snake, food, hazards, free_positions and score as they were.
C16_EndsOnCollisionOrKillScreen ==
    [][(IsTick /\ Running) =>
          /\ game'.game_over <=>
                \/ CollisionReason # ""
                \/ EatsNext /\ game.free_positions = <<>>
          /\ CollisionLeavesBoard]_vars

\* the game ended on the snake's tail, which is a hazard as well, with the
\* own-tail reason
C16_Witness ==
    /\ game.game_over
    /\ game.log = "avoid crashing into your own tail"
    /\ VectorAdd(to_vector(game.direction), game.snake[1]) = SnakeTail
    /\ SnakeTail \in Hazards

\* --------------------------------------------------------------------- C17
\* C17: every food cell is on the board and is no snake cell and no hazard
\* cell, no cell is in food twice, and the cell a tick adds to food comes
\* out of free_positions.
C17_FoodOnFreeCells ==
    /\ [](/\ Food \subseteq Board
          /\ Food \cap Snake = {}
          /\ Food \cap Hazards = {}
          /\ NoDuplicates(game.food))
    /\ [][(IsTick /\ game'.food # game.food /\ game'.food # <<>>) =>
             /\ game'.food[Len(game'.food)] \in Free
             /\ game'.food[Len(game'.food)] \notin Free']_vars

\* food was spawned on a board with hazards and a grown snake
C17_Witness ==
    /\ Running
    /\ game.score >= 2
    /\ Len(game.food) = 1
    /\ Cardinality(Hazards) >= 2

\* --------------------------------------------------------------------- C18
\* C18: a Running game has exactly one food cell; food is empty only when
\* the game is over on the kill screen.
C18_OneFood ==
    /\ Running => Len(game.food) = 1
    /\ game.food = <<>> =>
          /\ game.game_over
          /\ game.log = "can't believe you made it this far"

\* the last food was eaten on the full board: none is left
C18_Witness ==
    /\ game.food = <<>>
    /\ game.game_over
    /\ Len(game.snake) + Cardinality(Hazards) > game.width * game.height

\* --------------------------------------------------------------------- C19
\* game g is over after at most k more ticks, whatever get_u16 returns
RECURSIVE AllOverWithin(_, _)
AllOverWithin(g, k) ==
    \/ g.game_over
    \/ /\ k > 0
       /\ \A r \in TickDraws(g, Draws) : AllOverWithin(tick(g, <<r>>), k - 1)

\* C19: a Running game that is only ticked is over after at most
\* max(width, height) ticks.
C19_StraightRunIsShort ==
    Running => AllOverWithin(game, Max(game.width, game.height))

\* a Running game that has turned and needs all of the max(width, height)
\* ticks
C19_Witness ==
    /\ Running
    /\ ~straight
    /\ nticks >= 1
    /\ ~AllOverWithin(game, Max(game.width, game.height) - 1)

\* --------------------------------------------------------------------- C20
\* two cells that differ by one of the four unit vectors
Adjacent(a, b) ==
    \/ a[2] = b[2] /\ (a[1] = b[1] + 1 \/ a[1] = b[1] - 1)
    \/ a[1] = b[1] /\ (a[2] = b[2] + 1 \/ a[2] = b[2] - 1)

\* C20: every snake cell is on the board and every snake cell is next to
\* the one after it.
C20_SnakeIsAPath ==
    /\ Snake \subseteq Board
    /\ \A i \in 1 .. (Len(game.snake) - 1) :
          Adjacent(game.snake[i], game.snake[i + 1])

\* a snake of four cells with a bend
C20_Witness ==
    /\ Len(game.snake) >= 4
    /\ \E i \in 1 .. (Len(game.snake) - 2) :
          /\ game.snake[i][1] # game.snake[i + 2][1]
          /\ game.snake[i][2] # game.snake[i + 2][2]
====
